---------------------------- MODULE Spec2Model ----------------------------
(***************************************************************************)
(* String case conversion utilities: toCamelCase and toDotCase             *)
(* (basic_prompt.js) and toKebabCase (chain_prompt.js).                    *)
(*                                                                         *)
(* A JavaScript string is a sequence of one-character strings.  A value    *)
(* handed to a function is a record [tag, repr, chars]: tag is the kind of *)
(* value, chars the characters of a string value and repr the text         *)
(* String(value) of a value that is not a string.  The regular-expression  *)
(* steps of the functions are left-to-right scans over the characters.     *)
(***************************************************************************)
EXTENDS Integers, Sequences, FiniteSets, TLC

(***************************************************************************)
(* Bounds of the enumeration of input strings.                             *)
(***************************************************************************)
MaxLen == 4

\* The characters input strings are enumerated over: a lowercase letter, an
\* uppercase letter, a digit, a space, an underscore, a hyphen, a
\* punctuation character of \p{P} and a symbol that is not in \p{P}.
Sigma == {"a", "B", "1", " ", "_", "-", "!", "$"}

(***************************************************************************)
(* Character classes of the regular expressions.                           *)
(***************************************************************************)
LowerLetters ==
    <<"a","b","c","d","e","f","g","h","i","j","k","l","m",
      "n","o","p","q","r","s","t","u","v","w","x","y","z">>

UpperLetters ==
    <<"A","B","C","D","E","F","G","H","I","J","K","L","M",
      "N","O","P","Q","R","S","T","U","V","W","X","Y","Z">>

Digits == {"0","1","2","3","4","5","6","7","8","9"}

Range(s) == {s[i] : i \in DOMAIN s}

\* [a-z]
IsLower(c) == c \in Range(LowerLetters)

\* [A-Z]
IsUpper(c) == c \in Range(UpperLetters)

\* \w is [A-Za-z0-9_]
IsWordChar(c) == IsLower(c) \/ IsUpper(c) \/ c \in Digits \/ c = "_"

\* \s, and the characters String.prototype.trim removes
IsSpace(c) == c \in {" ", "\t", "\n"}

\* \p{P} with the u flag: the ASCII characters of the Unicode punctuation
\* categories.  The ASCII symbols $ + < = > ^ ` | ~ are of the categories
\* Sc, Sm and Sk and are not matched.
UnicodePunctuation ==
    {"!", "\"", "#", "%", "&", "'", "(", ")", "*", ",", "-", ".", "/",
     ":", ";", "?", "@", "[", "\\", "]", "_", "{", "}"}

\* [\s\-_\p{P}] of toDotCase
IsDotSeparator(c) ==
    IsSpace(c) \/ c = "-" \/ c = "_" \/ c \in UnicodePunctuation

\* String.prototype.toLowerCase on one character
LowerChar(c) ==
    IF IsUpper(c)
    THEN LowerLetters[CHOOSE i \in DOMAIN UpperLetters : UpperLetters[i] = c]
    ELSE c

\* the step left out: uppercase letters stay uppercase
ToLowerCase_KeepsCase(s) == s

\* String.prototype.toLowerCase
ToLowerCase(s) == [i \in 1..Len(s) |-> LowerChar(s[i])]

\* String.prototype.trim
RECURSIVE TrimStart(_)
TrimStart(s) ==
    IF s # <<>> /\ IsSpace(Head(s)) THEN TrimStart(Tail(s)) ELSE s

RECURSIVE TrimEnd(_)
TrimEnd(s) ==
    IF s # <<>> /\ IsSpace(s[Len(s)])
    THEN TrimEnd(SubSeq(s, 1, Len(s) - 1))
    ELSE s

Trim(s) == TrimEnd(TrimStart(s))

(***************************************************************************)
(* The steps of toKebabCase.                                               *)
(***************************************************************************)
\* the step left out: underscores stay in the string
ReplaceUnderscores_KeepsAll(s) == s

\* .replace(/_/g, ' ')
ReplaceUnderscores(s) ==
    [i \in 1..Len(s) |-> IF s[i] = "_" THEN " " ELSE s[i]]

\* .replace(/([a-z])([A-Z])/g, '$1 $2'): a match consumes both characters
RECURSIVE InsertCamelSpaces(_)
InsertCamelSpaces(s) ==
    IF Len(s) < 2 THEN s
    ELSE IF IsLower(s[1]) /\ IsUpper(s[2])
         THEN <<s[1], " ", s[2]>> \o InsertCamelSpaces(SubSeq(s, 3, Len(s)))
         ELSE <<s[1]>> \o InsertCamelSpaces(Tail(s))

\* the length of the run of uppercase letters s begins with
RECURSIVE UpperRunLen(_)
UpperRunLen(s) ==
    IF s # <<>> /\ IsUpper(Head(s)) THEN 1 + UpperRunLen(Tail(s)) ELSE 0

\* .replace(/([A-Z])+/g, ' $&'): a space in front of every maximal run of
\* uppercase letters, the run itself kept
RECURSIVE SpaceBeforeUpperRuns(_)
SpaceBeforeUpperRuns(s) ==
    IF s = <<>> THEN s
    ELSE LET n == UpperRunLen(s) IN
         IF n > 0
         THEN <<" ">> \o SubSeq(s, 1, n)
                      \o SpaceBeforeUpperRuns(SubSeq(s, n + 1, Len(s)))
         ELSE <<s[1]>> \o SpaceBeforeUpperRuns(Tail(s))

\* the step left out: punctuation stays in the string
RemovePunctuation_KeepsAll(s) == s

\* .replace(/[^\w\s-]/g, '')
RemovePunctuation(s) ==
    SelectSeq(s, LAMBDA c : IsWordChar(c) \/ IsSpace(c) \/ c = "-")

\* the length of the run of whitespace s begins with
RECURSIVE SpaceRunLen(_)
SpaceRunLen(s) ==
    IF s # <<>> /\ IsSpace(Head(s)) THEN 1 + SpaceRunLen(Tail(s)) ELSE 0

\* .replace(/\s+/g, r) for a one-character r
RECURSIVE ReplaceSpaceRuns(_, _)
ReplaceSpaceRuns(s, r) ==
    IF s = <<>> THEN s
    ELSE LET n == SpaceRunLen(s) IN
         IF n > 0
         THEN <<r>> \o ReplaceSpaceRuns(SubSeq(s, n + 1, Len(s)), r)
         ELSE <<s[1]>> \o ReplaceSpaceRuns(Tail(s), r)

\* .replace(/^-+/, '')
RECURSIVE StripLeadingHyphens(_)
StripLeadingHyphens(s) ==
    IF s # <<>> /\ Head(s) = "-" THEN StripLeadingHyphens(Tail(s)) ELSE s

\* .replace(/-+$/, '')
RECURSIVE StripTrailingHyphens(_)
StripTrailingHyphens(s) ==
    IF s # <<>> /\ s[Len(s)] = "-"
    THEN StripTrailingHyphens(SubSeq(s, 1, Len(s) - 1))
    ELSE s

\* .replace(/^-+|-+$/g, '')
StripHyphens(s) == StripTrailingHyphens(StripLeadingHyphens(s))

\* Step 3 of toKebabCase
normalized(s) ==
    Trim(RemovePunctuation(SpaceBeforeUpperRuns(
        InsertCamelSpaces(ReplaceUnderscores(s)))))

\* Steps 4 to 6 of toKebabCase
kebabCased(s) ==
    StripHyphens(
        ReplaceSpaceRuns(
            ToLowerCase(ReplaceSpaceRuns(normalized(s), " ")), "-"))


(***************************************************************************)
(* The steps of toDotCase.                                                 *)
(***************************************************************************)
\* the length of the run of separator characters s begins with
RECURSIVE SeparatorRunLen(_)
SeparatorRunLen(s) ==
    IF s # <<>> /\ IsDotSeparator(Head(s))
    THEN 1 + SeparatorRunLen(Tail(s))
    ELSE 0

\* .split(/[\s\-_\p{P}]+/gu): the pieces between the runs of separators, the
\* empty pieces at either end included; cur is the piece being read
RECURSIVE SplitOnSeparators(_, _)
SplitOnSeparators(s, cur) ==
    IF s = <<>> THEN <<cur>>
    ELSE LET n == SeparatorRunLen(s) IN
         IF n > 0
         THEN <<cur>> \o SplitOnSeparators(SubSeq(s, n + 1, Len(s)), <<>>)
         ELSE SplitOnSeparators(Tail(s), Append(cur, s[1]))

\* const words = trimmed.split(...).filter((word) => word.length > 0)
words(trimmed) ==
    SelectSeq(SplitOnSeparators(trimmed, <<>>), LAMBDA word : Len(word) > 0)

\* Array.prototype.join
RECURSIVE Join(_, _)
Join(ws, sep) ==
    IF ws = <<>> THEN <<>>
    ELSE IF Len(ws) = 1 THEN ws[1]
    ELSE ws[1] \o <<sep>> \o Join(Tail(ws), sep)

\* words.map((word) => word.toLowerCase()).join('.')
dotCased(ws) == Join([i \in 1..Len(ws) |-> ToLowerCase(ws[i])], ".")

(***************************************************************************)
(* Values and outcomes of a call.                                          *)
(***************************************************************************)
Str(s) == [tag |-> "string", repr |-> "", chars |-> s]

Null == [tag |-> "null", repr |-> "null", chars |-> <<>>]

Undefined == [tag |-> "undefined", repr |-> "undefined", chars |-> <<>>]

\* values that are neither strings nor absent: 123, true, {}, ['array'] and
\* Symbol('x'), each with the text String(value) gives
NonStrings ==
    { [tag |-> "number",  repr |-> "123",             chars |-> <<>>],
      [tag |-> "boolean", repr |-> "true",            chars |-> <<>>],
      [tag |-> "object",  repr |-> "[object Object]", chars |-> <<>>],
      [tag |-> "array",   repr |-> "array",           chars |-> <<>>],
      [tag |-> "symbol",  repr |-> "Symbol(x)",       chars |-> <<>>] }

\* the typeof operator
TypeOf(v) ==
    CASE v.tag = "null"  -> "object"
      [] v.tag = "array" -> "object"
      [] OTHER           -> v.tag

\* ${input} in a template literal applies ToString to the value, and
\* ToString of a Symbol throws a TypeError of the engine
TemplateThrows(v) == v.tag = "symbol"

SymbolConversionMessage == <<"Cannot convert a Symbol value to a string">>

Return(s) ==
    [kind |-> "return", type |-> "string", value |-> s,
     error |-> "", message |-> <<>>]

\* a function body that ends without a return statement
ReturnUndefined ==
    [kind |-> "return", type |-> "undefined", value |-> <<>>,
     error |-> "", message |-> <<>>]

\* message is the text of the error, as the pieces of the template literal
Throw(name, msg) ==
    [kind |-> "throw", type |-> "", value |-> <<>>,
     error |-> name, message |-> msg]

NoResult ==
    [kind |-> "none", type |-> "", value |-> <<>>,
     error |-> "", message |-> <<>>]

(***************************************************************************)
(* The three functions.                                                    *)
(***************************************************************************)
toKebabCase(input) ==
    IF input.tag \in {"null", "undefined"} THEN Return(<<>>)
    ELSE IF TypeOf(input) # "string"
    THEN IF TemplateThrows(input)
         THEN Throw("TypeError", SymbolConversionMessage)
         ELSE Throw("TypeError",
                    <<"Expected string input, received ", TypeOf(input),
                      ". Value: ", input.repr>>)
    ELSE IF Len(input.chars) = 0 THEN Return(<<>>)
    ELSE Return(kebabCased(input.chars))

\* console.warn of toKebabCase
kebabWarning(input) ==
    IF input.tag \in {"null", "undefined"}
    THEN <<"Input is null or undefined, returning empty string">>
    ELSE <<>>

toCamelCase(str) == ReturnUndefined

toDotCase(input) ==
    IF input.tag \in {"null", "undefined"} THEN Return(<<>>)
    ELSE IF TypeOf(input) # "string"
    THEN IF TemplateThrows(input)
         THEN Throw("TypeError", SymbolConversionMessage)
         ELSE Throw("TypeError",
                    <<"Expected a string, null, or undefined, but received ",
                      TypeOf(input), ": ", input.repr>>)
    ELSE LET trimmed == Trim(input.chars) IN
         IF Len(trimmed) = 0 THEN Return(<<>>)
         ELSE IF Len(words(trimmed)) = 0 THEN Return(<<>>)
         ELSE Return(dotCased(words(trimmed)))

(***************************************************************************)
(* The examples of the documentation and of the demonstration, and three   *)
(* further inputs: "HTTPServer", "HELLOworld" and "a - b".                 *)
(***************************************************************************)
helloSpaceWorld ==
    <<"h","e","l","l","o"," ","w","o","r","l","d">>

helloUnderscoreWorld ==
    <<"h","e","l","l","o","_","w","o","r","l","d">>

helloCamelWorld ==
    <<"h","e","l","l","o","W","o","r","l","d">>

helloSpacesWorld ==
    <<"h","e","l","l","o"," "," "," ","w","o","r","l","d">>

helloCommaWorld ==
    <<"h","e","l","l","o",","," ","w","o","r","l","d","!">>

helloHyphenWorld ==
    <<"h","e","l","l","o","-","w","o","r","l","d">>

screamingHelloWorld ==
    <<"H","E","L","L","O","_","W","O","R","L","D">>

helloBangsWorld ==
    <<"h","e","l","l","o","!","!","!","w","o","r","l","d","?","?","?">>

convertThisString ==
    <<"c","o","n","v","e","r","t","-","t","h","i","s","-","s","t","r","i","n","g">>

snakeCaseExample ==
    <<"s","n","a","k","e","_","c","a","s","e","_","e","x","a","m","p","l","e">>

httpServer ==
    <<"H","T","T","P","S","e","r","v","e","r">>

helloUpperWorld ==
    <<"H","E","L","L","O","w","o","r","l","d">>

someMixedCase ==
    <<"s","o","m","e","-","M","I","X","E","D","_","c","a","s","e">>

aHyphenB ==
    <<"a"," ","-"," ","b">>

fooAtBarHashBaz ==
    <<"f","o","o","@","b","a","r","#","b","a","z">>

threeSpaces ==
    <<" "," "," ">>

Examples ==
    { helloSpaceWorld, helloUnderscoreWorld, helloCamelWorld,
      helloSpacesWorld, helloCommaWorld, helloHyphenWorld,
      screamingHelloWorld, helloBangsWorld, convertThisString,
      snakeCaseExample, httpServer, helloUpperWorld, someMixedCase,
      aHyphenB, fooAtBarHashBaz, threeSpaces }

(***************************************************************************)
(* The state machine: one call of one function on one value.               *)
(***************************************************************************)
VARIABLES input, fn, result, warnings, pc

vars == <<input, fn, result, warnings, pc>>

\* every string over Sigma of at most MaxLen characters
BoundedStrings == UNION {[1..n -> Sigma] : n \in 0..MaxLen}

Inputs ==
    {Str(s) : s \in BoundedStrings \cup Examples}
        \cup {Null, Undefined} \cup NonStrings

Init ==
    /\ input \in Inputs
    /\ fn = "none"
    /\ result = NoResult
    /\ warnings = <<>>
    /\ pc = "start"

CallToKebabCase ==
    /\ pc = "start"
    /\ fn' = "toKebabCase"
    /\ result' = toKebabCase(input)
    /\ warnings' = warnings \o kebabWarning(input)
    /\ pc' = "done"
    /\ UNCHANGED input

CallToCamelCase ==
    /\ pc = "start"
    /\ fn' = "toCamelCase"
    /\ result' = toCamelCase(input)
    /\ pc' = "done"
    /\ UNCHANGED <<input, warnings>>

CallToDotCase ==
    /\ pc = "start"
    /\ fn' = "toDotCase"
    /\ result' = toDotCase(input)
    /\ pc' = "done"
    /\ UNCHANGED <<input, warnings>>

Next == CallToKebabCase \/ CallToCamelCase \/ CallToDotCase

Spec == Init /\ [][Next]_vars

TypeOK ==
    /\ input \in Inputs
    /\ fn \in {"none", "toKebabCase", "toCamelCase", "toDotCase"}
    /\ pc \in {"start", "done"}
    /\ result.kind \in {"none", "return", "throw"}
    /\ (pc = "done") <=> (result.kind # "none")

(***************************************************************************)
(* Vocabulary of the properties.                                           *)
(***************************************************************************)
Done(f) == pc = "done" /\ fn = f

IsString(v) == v.tag = "string"

IsLetter(c) == IsLower(c) \/ IsUpper(c)

\* the punctuation characters, the hyphen and the underscore apart
PunctuationMarks == UnicodePunctuation \ {"-", "_"}

\* s has two hyphens in a row
HasDoubleHyphen(s) ==
    \E i \in 1..(Len(s) - 1) : s[i] = "-" /\ s[i + 1] = "-"

\* -------------------------------------------------------------------------
\* C1: a value that is present and is not a string makes toKebabCase and
\* toDotCase throw a TypeError whose message has the typeof name of the
\* value and the text of the value in it.
C1_InvalidTypeThrows ==
    (pc = "done" /\ fn \in {"toKebabCase", "toDotCase"} /\ input \in NonStrings)
        => /\ result.kind = "throw"
           /\ result.error = "TypeError"
           /\ TypeOf(input) \in Range(result.message)
           /\ input.repr \in Range(result.message)

\* -------------------------------------------------------------------------
\* a string of whitespace, underscores, hyphens and punctuation only, or an
\* absent value
IsDegenerate(v) ==
    \/ v.tag \in {"null", "undefined"}
    \/ /\ IsString(v)
       /\ \A i \in 1..Len(v.chars) :
              \/ IsSpace(v.chars[i])
              \/ v.chars[i] \in {"_", "-"}
              \/ v.chars[i] \in PunctuationMarks

\* C2: toKebabCase and toDotCase return the empty string, and throw nothing,
\* for null, for undefined and for every string made only of whitespace,
\* underscores, hyphens and punctuation characters.
C2_DegenerateGivesEmpty ==
    (pc = "done" /\ fn \in {"toKebabCase", "toDotCase"} /\ IsDegenerate(input))
        => result = Return(<<>>)

\* toDotCase has returned "" for the string "!- _"
C2_Witness ==
    /\ Done("toDotCase")
    /\ input = Str(<<"!", "-", " ", "_">>)
    /\ result = Return(<<>>)

\* -------------------------------------------------------------------------
\* C3: each of the three functions returns exactly the empty string for the
\* empty string and for every string of whitespace only.
C3_BlankGivesEmpty ==
    (pc = "done" /\ IsString(input) /\ Trim(input.chars) = <<>>)
        => result = Return(<<>>)

\* -------------------------------------------------------------------------
\* String.prototype.toUpperCase on one character
UpperChar(c) ==
    IF IsLower(c)
    THEN UpperLetters[CHOOSE i \in DOMAIN LowerLetters : LowerLetters[i] = c]
    ELSE c

\* the words of s, a word being a maximal run of characters other than the
\* space, the hyphen and the underscore; cur is the word being read
RECURSIVE SeparatedWords(_, _)
SeparatedWords(s, cur) ==
    IF s = <<>> THEN (IF cur = <<>> THEN <<>> ELSE <<cur>>)
    ELSE IF s[1] \in {" ", "-", "_"}
         THEN (IF cur = <<>> THEN <<>> ELSE <<cur>>)
                  \o SeparatedWords(Tail(s), <<>>)
         ELSE SeparatedWords(Tail(s), Append(cur, s[1]))

\* first character uppercase, remainder lowercase
Capitalized(w) ==
    [i \in 1..Len(w) |-> IF i = 1 THEN UpperChar(w[i]) ELSE LowerChar(w[i])]

\* the camel rendering of a sequence of words
RECURSIVE ConcatAll(_)
ConcatAll(ws) == IF ws = <<>> THEN <<>> ELSE Head(ws) \o ConcatAll(Tail(ws))

CamelRendering(ws) ==
    ConcatAll([i \in 1..Len(ws) |->
                   IF i = 1 THEN ToLowerCase(ws[i]) ELSE Capitalized(ws[i])])

\* s is words of letters and digits separated by spaces, hyphens, underscores
IsSeparatedWords(s) ==
    \A i \in 1..Len(s) :
        IsLetter(s[i]) \/ s[i] \in Digits \/ s[i] \in {" ", "-", "_"}

\* C4: toCamelCase returns the words of its argument joined without a
\* separator, the first word lowercase and every later word capitalized;
\* "convert-this-string" gives "convertThisString", "hello world" gives
\* "helloWorld" and "snake_case_example" gives "snakeCaseExample".
C4_CamelCaseRendering ==
    (Done("toCamelCase") /\ IsString(input) /\ IsSeparatedWords(input.chars))
        => /\ result
                = Return(CamelRendering(SeparatedWords(input.chars, <<>>)))
           /\ input = Str(helloSpaceWorld)
                => result = Return(helloCamelWorld)
           /\ input = Str(convertThisString)
                => result = Return(<<"c","o","n","v","e","r","t","T","h","i",
                                     "s","S","t","r","i","n","g">>)
           /\ input = Str(snakeCaseExample)
                => result = Return(<<"s","n","a","k","e","C","a","s","e","E",
                                     "x","a","m","p","l","e">>)

\* -------------------------------------------------------------------------
\* the length of the run of characters other than letters s begins with
RECURSIVE NonLetterRunLen(_)
NonLetterRunLen(s) ==
    IF s # <<>> /\ ~IsLetter(Head(s)) THEN 1 + NonLetterRunLen(Tail(s)) ELSE 0

\* a separator between two words: a run of spaces, one underscore, or
\* punctuation marks next to a space
IsWordSeparator(r) ==
    \/ \A i \in 1..Len(r) : r[i] = " "
    \/ r = <<"_">>
    \/ /\ \A i \in 1..Len(r) : r[i] = " " \/ r[i] \in PunctuationMarks
       /\ \E i \in 1..Len(r) : r[i] = " "

\* what may follow the last word: punctuation marks
IsTrailer(r) == \A i \in 1..Len(r) : r[i] \in PunctuationMarks

\* every run of characters other than letters in s is a word separator, or
\* a trailer when it ends s
RECURSIVE SeparatorsWellFormed(_)
SeparatorsWellFormed(s) ==
    IF s = <<>> THEN TRUE
    ELSE IF IsLetter(s[1]) THEN SeparatorsWellFormed(Tail(s))
    ELSE LET n == NonLetterRunLen(s)
             rest == SubSeq(s, n + 1, Len(s))
         IN  /\ IF rest = <<>> THEN IsTrailer(SubSeq(s, 1, n))
                               ELSE IsWordSeparator(SubSeq(s, 1, n))
             /\ SeparatorsWellFormed(rest)

\* s is words of ASCII letters with well-formed separators between them
IsLetterWords(s) ==
    /\ s # <<>>
    /\ IsLetter(s[1])
    /\ SeparatorsWellFormed(s)

\* the words of s: a word ends at a character that is not a letter and
\* between a lowercase letter and an uppercase one; cur is the word being read
RECURSIVE LetterWords(_, _)
LetterWords(s, cur) ==
    IF s = <<>> THEN (IF cur = <<>> THEN <<>> ELSE <<cur>>)
    ELSE IF ~IsLetter(s[1])
         THEN (IF cur = <<>> THEN <<>> ELSE <<cur>>)
                  \o LetterWords(Tail(s), <<>>)
    ELSE IF cur # <<>> /\ IsLower(cur[Len(cur)]) /\ IsUpper(s[1])
         THEN <<cur>> \o LetterWords(Tail(s), <<s[1]>>)
    ELSE LetterWords(Tail(s), Append(cur, s[1]))

\* the words lowercased and joined by sep
JoinedLower(ws, sep) ==
    Join([i \in 1..Len(ws) |-> [j \in 1..Len(ws[i]) |-> LowerChar(ws[i][j])]],
         sep)

\* C5: for words of ASCII letters separated by a run of spaces, by an
\* underscore, by a lowercase-to-uppercase transition or by punctuation next
\* to a space, with optional trailing punctuation, toKebabCase returns the
\* words lowercased, in order, joined by exactly one hyphen; "hello world",
\* "hello_world", "helloWorld", "hello   world" and "hello, world!" all give
\* "hello-world".
C5_KebabJoinsWords ==
    (Done("toKebabCase") /\ IsString(input))
        => /\ IsLetterWords(input.chars)
                => result
                     = Return(JoinedLower(LetterWords(input.chars, <<>>), "-"))
           /\ input \in { Str(helloSpaceWorld), Str(helloUnderscoreWorld),
                          Str(helloCamelWorld), Str(helloSpacesWorld),
                          Str(helloCommaWorld) }
                => result = Return(helloHyphenWorld)

\* toKebabCase has returned "hello-world" for "hello, world!"
C5_Witness ==
    /\ Done("toKebabCase")
    /\ input = Str(helloCommaWorld)
    /\ IsLetterWords(input.chars)
    /\ result = Return(helloHyphenWorld)

\* -------------------------------------------------------------------------
\* C6: toDotCase takes a lowercase letter followed by an uppercase letter as
\* a word boundary: the two sides come out as separate lowercase words joined
\* by a dot, so "helloWorld" gives "hello.world", as "hello world",
\* "hello-world" and "HELLO_WORLD" do.
C6_DotSplitsCamelCase ==
    (Done("toDotCase") /\ IsString(input))
        => /\ IsLetterWords(input.chars)
                => result
                     = Return(JoinedLower(LetterWords(input.chars, <<>>), "."))
           /\ input \in { Str(helloCamelWorld), Str(helloSpaceWorld),
                          Str(helloHyphenWorld), Str(screamingHelloWorld) }
                => result = Return(<<"h","e","l","l","o",".",
                                     "w","o","r","l","d">>)

\* -------------------------------------------------------------------------
\* C7: conversion is idempotent: toKebabCase of what toKebabCase returned
\* for a string is that same string, and likewise for toDotCase.
C7_Idempotent ==
    (pc = "done" /\ IsString(input) /\ result.kind = "return")
        => /\ fn = "toKebabCase" => toKebabCase(Str(result.value)) = result
           /\ fn = "toDotCase" => toDotCase(Str(result.value)) = result

\* toKebabCase has turned "aB-_" into "a-b", which it maps to itself
C7_Witness ==
    /\ Done("toKebabCase")
    /\ input = Str(<<"a", "B", "-", "_">>)
    /\ result = Return(<<"a", "-", "b">>)
    /\ toKebabCase(Str(result.value)) = result

\* -------------------------------------------------------------------------
\* C8: the string toKebabCase returns never has two hyphens in a row and
\* never begins or ends with a hyphen, whatever mix of hyphens, spaces,
\* underscores and uppercase letters the argument has.
C8_SingleHyphens ==
    (Done("toKebabCase") /\ IsString(input))
        => /\ result.kind = "return"
           /\ ~HasDoubleHyphen(result.value)
           /\ result.value # <<>>
                => /\ Head(result.value) # "-"
                   /\ result.value[Len(result.value)] # "-"

\* -------------------------------------------------------------------------
\* s is a run of two or more uppercase letters and then one or more
\* lowercase letters, and nothing else
IsUpperRunThenLower(s) ==
    LET n == UpperRunLen(s) IN
        /\ n >= 2
        /\ Len(s) > n
        /\ \A i \in (n + 1)..Len(s) : IsLower(s[i])

\* C9: for a run of two or more uppercase letters followed by lowercase
\* letters ("HTTPServer", "HELLOworld") the string toKebabCase returns has
\* at least one hyphen, and the run is not split into one-letter words.
C9_BoundaryAfterUpperRun ==
    (Done("toKebabCase") /\ IsString(input) /\ IsUpperRunThenLower(input.chars))
        => /\ result.kind = "return"
           /\ "-" \in Range(result.value)
           /\ ~(Len(result.value) >= 2 /\ result.value[2] = "-")

\* -------------------------------------------------------------------------
\* every hyphen of s replaced by a dot
HyphensToDots(s) == [i \in 1..Len(s) |-> IF s[i] = "-" THEN "." ELSE s[i]]

\* s is letters of both cases, digits, spaces, underscores, hyphens and
\* punctuation marks only
IsPlainText(s) ==
    \A i \in 1..Len(s) :
        \/ IsLetter(s[i]) \/ s[i] \in Digits
        \/ s[i] \in {" ", "_", "-"} \/ s[i] \in PunctuationMarks

\* C10: toDotCase of a string is toKebabCase of it with every hyphen
\* replaced by a dot: the two functions split a string into the same words.
C10_SameSegmentation ==
    (Done("toDotCase") /\ IsString(input) /\ IsPlainText(input.chars))
        => result = Return(HyphensToDots(toKebabCase(input).value))

=============================================================================
